---- MODULE Spec2Model ----
(***************************************************************************)
(* A model of src/main.py: the corpus-building pipeline                    *)
(*   catalog -> search -> download -> convert to wav -> 30 s segments ->   *)
(*   MFCC features                                                         *)
(* Strings are sequences of one-character strings.  The pipeline is the    *)
(* specification Spec; the pure helpers yt_title_clean, parse_duration and *)
(* the segment loop have their own specifications over bounded inputs.     *)
(***************************************************************************)
EXTENDS Integers, Sequences, FiniteSets, TLC

VARIABLES
    pc,               \* position of main / download_songs
    ncatalog,         \* rows of the catalog returned by load_song_data
    entry,            \* catalog row download_songs is working on (1-based)
    nresults,         \* len(searched_songs) of the current entry
    pos,              \* candidates of searched_songs consumed so far
    downloaded_count, \* download_songs' local counter
    download_results, \* download_songs' list of rows
    files,            \* paths that exist under datasets/songs
    wav_ms,           \* wav path -> length in ms of the file, Absent if none
    results_df,       \* main's results_df
    row,              \* rows of the running apply / iterrows / map loop done
    split_result,     \* split_songs_to_segments' list / main's segments_df
    stored,           \* csv files written so far: name -> table
    stream_downloads, \* mp3 path -> number of song.download calls made
    ffmpeg_runs,      \* wav path -> number of subprocess.run calls made
    last,             \* what the last loop iteration of download_songs did,
                      \* and whether the entry skipped an over-long candidate
    arg,              \* input of the pure helper being called
    res               \* its result (Pending before the call)

pipe_vars == <<pc, ncatalog, entry, nresults, pos, downloaded_count,
               download_results, files, wav_ms, results_df, row, split_result,
               stored, stream_downloads, ffmpeg_runs, last>>
vars == <<pipe_vars, arg, res>>

----------------------------------------------------------------------------
(* Program constants *)
MAX_VIDEO_DURATION == 500
SEGMENT_DURATION == 30
SONG_SEARCH_MAX_RESULTS == 15
SONG_LENGTH_PER_TITLE == 5
DOWNLOAD_SONG_LIMIT == 5

(* Bounds of the model *)
MaxCatalog == 1        \* rows in the catalog
MaxResults == 6        \* results the search index returns for one query
NumVideos == 2         \* distinct videos the index knows
MaxTitleLen == 4       \* length of a title given to yt_title_clean
MaxDurationLen == 7    \* length of a duration string given to parse_duration
MaxAudioSeconds == 95  \* whole seconds of a track given to the segment loop
MaxRows == 3           \* rows download_songs hands to the conversion stage

Min(a, b) == IF a < b THEN a ELSE b

None == <<"None">>
Pending == <<"Pending">>
Absent == 0 - 1

RECURSIVE StringsUpTo(_, _)
StringsUpTo(alphabet, n) ==
    IF n = 0 THEN {<<>>}
    ELSE LET shorter == StringsUpTo(alphabet, n - 1)
         IN  shorter \cup {Append(s, c) : s \in shorter, c \in alphabet}

----------------------------------------------------------------------------
(* yt_title_clean *)

LowerSeq == <<"a", "b", "c", "d", "e", "f", "g", "h", "i", "j", "k", "l", "m",
              "n", "o", "p", "q", "r", "s", "t", "u", "v", "w", "x", "y", "z">>
UpperSeq == <<"A", "B", "C", "D", "E", "F", "G", "H", "I", "J", "K", "L", "M",
              "N", "O", "P", "Q", "R", "S", "T", "U", "V", "W", "X", "Y", "Z">>
DigitSeq == <<"0", "1", "2", "3", "4", "5", "6", "7", "8", "9">>
Digits == {DigitSeq[i] : i \in 1..10}

\* str.lower() on one character
LowerOf(c) == IF \E i \in 1..26 : UpperSeq[i] = c
              THEN LowerSeq[CHOOSE i \in 1..26 : UpperSeq[i] = c]
              ELSE c

\* the characters [a-z0-9_] keeps
KeepChars == {LowerSeq[i] : i \in 1..26} \cup Digits \cup {"_"}

\* str.lower()
Lower(s) == [i \in 1..Len(s) |-> LowerOf(s[i])]

\* str.replace(old, new) for one-character old and new
Replace(s, old, new) == [i \in 1..Len(s) |-> IF s[i] = old THEN new ELSE s[i]]

\* re.sub(r'_{2,}', '_', text): every maximal run of two or more '_' becomes one
CollapseUnderscores(s) ==
    SelectSeq([i \in 1..Len(s) |-> IF s[i] = "_" /\ i > 1 /\ s[i-1] = "_"
                                   THEN "" ELSE s[i]],
              LAMBDA c : c # "")

\* re.sub(r'[^a-z0-9_]', '', text)
StripOthers(s) == SelectSeq(s, LAMBDA c : c \in KeepChars)

yt_title_clean(title) ==
    LET text == Replace(Lower(title), " ", "_")
    IN  StripOthers(CollapseUnderscores(text))

----------------------------------------------------------------------------
(* parse_duration *)

\* int() of one digit
DigitVal(c) == (CHOOSE i \in 1..10 : DigitSeq[i] = c) - 1

ValueError == [err |-> TRUE, val |-> 0]
Seconds(n) == [err |-> FALSE, val |-> n]

Count(s, c) == Cardinality({i \in 1..Len(s) : s[i] = c})

\* s.split(sep): the fields between the separators, empty fields included
RECURSIVE SplitOn(_, _)
SplitOn(s, sep) ==
    IF \A i \in 1..Len(s) : s[i] # sep THEN <<s>>
    ELSE LET k == CHOOSE i \in 1..Len(s) :
                      s[i] = sep /\ \A j \in 1..(i-1) : s[j] # sep
         IN  <<SubSeq(s, 1, k - 1)>> \o SplitOn(SubSeq(s, k + 1, Len(s)), sep)

\* One numeric directive of strptime: one or two digits, value at most `top`
\* (%H: 2[0-3]|[0-1]\d|\d, %M: [0-5]\d|\d, %S: 6[0-1]|[0-5]\d|\d, and datetime
\* itself refuses a second above 59).
FieldOk(f, top) ==
    /\ Len(f) \in {1, 2}
    /\ \A i \in 1..Len(f) : f[i] \in Digits
    /\ (IF Len(f) = 1 THEN DigitVal(f[1])
        ELSE 10 * DigitVal(f[1]) + DigitVal(f[2])) <= top

FieldVal(f) == IF Len(f) = 1 THEN DigitVal(f[1])
               ELSE 10 * DigitVal(f[1]) + DigitVal(f[2])

\* datetime.strptime(s, fmt) for fmt = '%H:%M:%S' (tops <<23,59,59>>) and
\* '%M:%S' (tops <<59,59>>): the whole string must match, else ValueError.
strptime(s, tops) ==
    LET fields == SplitOn(s, ":")
    IN  IF Len(fields) = Len(tops)
           /\ \A i \in 1..Len(tops) : FieldOk(fields[i], tops[i])
        THEN [err |-> FALSE, f |-> [i \in 1..Len(tops) |-> FieldVal(fields[i])]]
        ELSE [err |-> TRUE, f |-> <<>>]

\* parse_duration without the replacement of '.' by ':'
parse_duration_colon_only(duration_str) ==
    LET s == duration_str
    IN  IF Count(s, ":") = 2
        THEN LET d == strptime(s, <<23, 59, 59>>)
             IN  IF d.err THEN ValueError
                 ELSE Seconds(d.f[1] * 3600 + d.f[2] * 60 + d.f[3])
        ELSE LET d == strptime(s, <<59, 59>>)
             IN  IF d.err THEN ValueError
                 ELSE Seconds(0 * 3600 + d.f[1] * 60 + d.f[2])

parse_duration(duration_str) ==
    LET s == Replace(duration_str, ".", ":")
    IN  IF Count(s, ":") = 2
        THEN LET d == strptime(s, <<23, 59, 59>>)
             IN  IF d.err THEN ValueError
                 ELSE Seconds(d.f[1] * 3600 + d.f[2] * 60 + d.f[3])
        ELSE LET d == strptime(s, <<59, 59>>)
             IN  IF d.err THEN ValueError
                 ELSE Seconds(0 * 3600 + d.f[1] * 60 + d.f[2])

----------------------------------------------------------------------------
(* The external world: the catalog, the search index, the video site *)

Videos == 1..NumVideos

\* yt.title of a video: "Lagu - 1", "Lagu - 2", ...
VideoTitle(v) == <<"L", "a", "g", "u", " ", "-", " ", DigitSeq[(v % 10) + 1]>>

\* song['duration'] as the index reports it: 7:11 (431 s), 8.20 (500 s, the
\* limit itself), 1:02:03 (an hour-long video) and a live stream without one
DurationTexts == { <<"7", ":", "1", "1">>,
                   <<"8", ".", "2", "0">>,
                   <<"1", ":", "0", "2", ":", "0", "3">>,
                   <<"L", "I", "V", "E">> }

\* what the video site does when download_video runs: it serves the stream,
\* refuses the metadata (YouTube(...) or yt.title raises), or has no stream to
\* give (get_audio_only / download raises)
SiteAnswers == {"ok", "no_meta", "no_stream"}

Candidates == [url : Videos, duration : DurationTexts, site : SiteAnswers]

Mp3Path(title) == <<"datasets/songs/">> \o title \o <<".mp3">>

\* path.replace('songs', 'wav_songs').replace('.mp3', '.wav')
WavPathOf(path) ==
    <<"datasets/wav_songs/">> \o SubSeq(path, 2, Len(path) - 1) \o <<".wav">>

\* f'datasets/songs/{title}.mp3' with title = yt_title_clean(yt.title)
FilePath == [v \in Videos |-> Mp3Path(yt_title_clean(VideoTitle(v)))]

\* parse_duration(song['duration']) of the durations the index reports
ParsedDuration == [d \in DurationTexts |-> parse_duration(d)]

Mp3Paths == {FilePath[v] : v \in Videos}
WavPaths == {WavPathOf(p) : p \in Mp3Paths}

\* data.head(DOWNLOAD_SONG_LIMIT)
NumEntries == Min(ncatalog, DOWNLOAD_SONG_LIMIT)

----------------------------------------------------------------------------
(* download_video: the value returned and the file system left behind *)

\* download_video without the os.path.exists check
download_video_unchecked(c, fs, calls) ==
    LET file_path == FilePath[c.url]
    IN  IF c.site \in {"no_meta", "no_stream"}
        THEN [path |-> None, files |-> fs, calls |-> calls]
        ELSE [path |-> file_path,
              files |-> fs \cup {file_path},
              calls |-> [calls EXCEPT ![file_path] = @ + 1]]

download_video(c, fs, calls) ==
    LET file_path == FilePath[c.url]
    IN  IF c.site = "no_meta"
        THEN [path |-> None, files |-> fs, calls |-> calls]
        ELSE IF file_path \in fs
        THEN [path |-> file_path, files |-> fs, calls |-> calls]
        ELSE IF c.site = "no_stream"
        THEN [path |-> None, files |-> fs, calls |-> calls]
        ELSE [path |-> file_path,
              files |-> fs \cup {file_path},
              calls |-> [calls EXCEPT ![file_path] = @ + 1]]

----------------------------------------------------------------------------
(* download_songs *)

\* duration <= MAX_VIDEO_DURATION, the limit itself let through
DurationAllowedInclusive(duration) == duration <= MAX_VIDEO_DURATION

\* duration < MAX_VIDEO_DURATION
DurationAllowed(duration) == duration < MAX_VIDEO_DURATION

\* downloaded_count >= SONG_LENGTH_PER_TITLE
QuotaReached(count) == count >= SONG_LENGTH_PER_TITLE

\* search_youtube(keyword): the index answers with at most max_results results
SearchYoutube ==
    /\ pc = "rows"
    /\ entry < NumEntries
    /\ entry' = entry + 1
    /\ \E n \in 0..Min(SONG_SEARCH_MAX_RESULTS, MaxResults) : nresults' = n
    /\ pos' = 0
    /\ downloaded_count' = 0
    /\ pc' = "songs"
    /\ last' = [did |-> "search", secs |-> 0, skipped |-> FALSE]
    /\ UNCHANGED <<ncatalog, download_results, files, wav_ms, results_df, row,
                   split_result, stored, stream_downloads, ffmpeg_runs, arg, res>>

\* one iteration of `for song in searched_songs` that does not break
TryCandidate(c) ==
    /\ pc = "songs"
    /\ pos < nresults
    /\ ~QuotaReached(downloaded_count)
    /\ pos' = pos + 1
    /\ LET duration == ParsedDuration[c.duration]
       IN  IF duration.err
           THEN /\ last' = [did |-> "bad_duration", secs |-> 0, skipped |-> last.skipped]
                /\ UNCHANGED <<download_results, downloaded_count, files,
                               stream_downloads>>
           ELSE IF DurationAllowed(duration.val)
           THEN LET got == download_video(c, files, stream_downloads)
                IN  /\ download_results' =
                           Append(download_results,
                                  [url |-> c.url, nama_lagu |-> entry,
                                   duration |-> duration.val, path |-> got.path])
                    /\ downloaded_count' = downloaded_count + 1
                    /\ files' = got.files
                    /\ stream_downloads' = got.calls
                    /\ last' = [did |-> IF got.path = None THEN "failed"
                                        ELSE IF got.files = files THEN "reused"
                                        ELSE "downloaded",
                                secs |-> duration.val, skipped |-> last.skipped]
           ELSE /\ last' = [did |-> "too_long", secs |-> duration.val,
                            skipped |-> TRUE]
                /\ UNCHANGED <<download_results, downloaded_count, files,
                               stream_downloads>>
    /\ UNCHANGED <<pc, ncatalog, entry, nresults, wav_ms, results_df, row,
                   split_result, stored, ffmpeg_runs, arg, res>>

\* the iteration that finds the quota met and breaks
Break ==
    /\ pc = "songs"
    /\ pos < nresults
    /\ QuotaReached(downloaded_count)
    /\ pc' = "rows"
    /\ last' = [did |-> "break", secs |-> 0, skipped |-> last.skipped]
    /\ UNCHANGED <<ncatalog, entry, nresults, pos, downloaded_count,
                   download_results, files, wav_ms, results_df, row, split_result,
                   stored, stream_downloads, ffmpeg_runs, arg, res>>

\* searched_songs is exhausted
Exhausted ==
    /\ pc = "songs"
    /\ pos = nresults
    /\ pc' = "rows"
    /\ last' = [did |-> "exhausted", secs |-> 0, skipped |-> last.skipped]
    /\ UNCHANGED <<ncatalog, entry, nresults, pos, downloaded_count,
                   download_results, files, wav_ms, results_df, row, split_result,
                   stored, stream_downloads, ffmpeg_runs, arg, res>>

----------------------------------------------------------------------------
(* main, after download_songs *)

NotWritten == [written |-> FALSE, rows |-> <<>>]
Csv(table) == [written |-> TRUE, rows |-> table]

\* pd.DataFrame(download_results): the rows get the index labels 0, 1, ...
DataFrame(rows) ==
    [i \in 1..Len(rows) |->
        [url |-> rows[i].url, nama_lagu |-> rows[i].nama_lagu,
         duration |-> rows[i].duration, path |-> rows[i].path,
         index |-> i - 1, wav_path |-> Pending]]

\* lines 39-40: download_songs has returned; results.csv is written
WriteResults ==
    /\ pc = "rows"
    /\ entry = NumEntries
    /\ results_df' = DataFrame(download_results)
    /\ stored' = [stored EXCEPT !.results = Csv(download_results)]
    /\ row' = 0
    /\ pc' = "convert"
    /\ UNCHANGED <<ncatalog, entry, nresults, pos, downloaded_count,
                   download_results, files, wav_ms, split_result,
                   stream_downloads, ffmpeg_runs, last, arg, res>>

\* line 42 on a frame made from an empty list: it has no 'path' column
ConvertKeyError ==
    /\ pc = "convert"
    /\ results_df = <<>>
    /\ pc' = "KeyError: 'path'"
    /\ UNCHANGED <<ncatalog, entry, nresults, pos, downloaded_count,
                   download_results, files, wav_ms, results_df, row, split_result,
                   stored, stream_downloads, ffmpeg_runs, last, arg, res>>

\* what ffmpeg leaves behind: no output file, or a wav of some length (ms)
TrackLengths == {SEGMENT_DURATION * 1000 - 1, SEGMENT_DURATION * 1000}
FfmpegOutcomes == {Absent} \cup TrackLengths

\* convert_to_wav without the os.path.exists check
convert_to_wav_unchecked(path, wavs, runs, outcome) ==
    IF path = None
    THEN [wav_path |-> None, wavs |-> wavs, runs |-> runs]
    ELSE LET wav_path == WavPathOf(path)
         IN  [wav_path |-> wav_path,
              wavs |-> [wavs EXCEPT ![wav_path] = outcome],
              runs |-> [runs EXCEPT ![wav_path] = @ + 1]]

\* convert_to_wav(path) when ffmpeg, if it runs, ends in `outcome`
convert_to_wav(path, wavs, runs, outcome) ==
    IF path = None
    THEN [wav_path |-> None, wavs |-> wavs, runs |-> runs]
    ELSE LET wav_path == WavPathOf(path)
         IN  IF wavs[wav_path] # Absent
             THEN [wav_path |-> wav_path, wavs |-> wavs, runs |-> runs]
             ELSE [wav_path |-> wav_path,
                   wavs |-> [wavs EXCEPT ![wav_path] = outcome],
                   runs |-> [runs EXCEPT ![wav_path] = @ + 1]]

\* line 42: results_df['path'].apply(convert_to_wav), one row at a time
ConvertRow(outcome) ==
    /\ pc = "convert"
    /\ row < Len(results_df)
    /\ LET got == convert_to_wav(results_df[row + 1].path, wav_ms, ffmpeg_runs,
                                 outcome)
       IN  /\ results_df' = [results_df EXCEPT ![row + 1].wav_path = got.wav_path]
           /\ wav_ms' = got.wavs
           /\ ffmpeg_runs' = got.runs
    /\ row' = row + 1
    /\ UNCHANGED <<pc, ncatalog, entry, nresults, pos, downloaded_count,
                   download_results, files, split_result, stored,
                   stream_downloads, last, arg, res>>

\* results_df[results_df['wav_path'].notnull()]
NotNullWav(df) == SelectSeq(df, LAMBDA r : r.wav_path # None)

\* lines 43-44: the rows without a wav_path go, results_wav.csv is written
WriteResultsWav ==
    /\ pc = "convert"
    /\ results_df # <<>>
    /\ row = Len(results_df)
    /\ results_df' = NotNullWav(results_df)
    /\ stored' = [stored EXCEPT !.results_wav = Csv(NotNullWav(results_df))]
    /\ row' = 0
    /\ pc' = "split"
    /\ UNCHANGED <<ncatalog, entry, nresults, pos, downloaded_count,
                   download_results, files, wav_ms, split_result,
                   stream_downloads, ffmpeg_runs, last, arg, res>>

----------------------------------------------------------------------------
(* split_songs_to_segments *)

\* the number of windows rounded up, the trailing part counted as a segment
NumSegmentsRoundedUp(len_ms) ==
    (len_ms + SEGMENT_DURATION * 1000 - 1) \div (SEGMENT_DURATION * 1000)

\* int(total_duration // SEGMENT_DURATION) with total_duration = len(audio) / 1000
NumSegments(len_ms) == len_ms \div (SEGMENT_DURATION * 1000)

\* audio[start_time:end_time]: pydub cuts the bounds down to the audio's length
Slice(len_ms, start_time, end_time) ==
    [from |-> Min(start_time, len_ms), to |-> Min(end_time, len_ms)]

\* the segments the loop over range(num_segments) exports, in order
SegmentsOf(len_ms) ==
    [k \in 1..NumSegments(len_ms) |->
        LET i == k - 1
        IN  [i |-> i,
             audio |-> Slice(len_ms, i * SEGMENT_DURATION * 1000,
                             (i + 1) * SEGMENT_DURATION * 1000)]]

\* one iteration of df.iterrows() over a wav file that can be read
SplitRow ==
    /\ pc = "split"
    /\ row < Len(results_df)
    /\ LET r == results_df[row + 1]
           segs == SegmentsOf(wav_ms[r.wav_path])
       IN  /\ wav_ms[r.wav_path] # Absent
           /\ split_result' = split_result \o
                  [k \in 1..Len(segs) |->
                      [title |-> r.nama_lagu, index |-> r.index, i |-> segs[k].i,
                       audio |-> segs[k].audio, mfcc |-> Pending]]
    /\ row' = row + 1
    /\ UNCHANGED <<pc, ncatalog, entry, nresults, pos, downloaded_count,
                   download_results, files, wav_ms, results_df, stored,
                   stream_downloads, ffmpeg_runs, last, arg, res>>

\* AudioSegment.from_wav(wav_path) on a file that is not there raises
SplitCrash ==
    /\ pc = "split"
    /\ row < Len(results_df)
    /\ wav_ms[results_df[row + 1].wav_path] = Absent
    /\ pc' = "FileNotFoundError"
    /\ UNCHANGED <<ncatalog, entry, nresults, pos, downloaded_count,
                   download_results, files, wav_ms, results_df, row, split_result,
                   stored, stream_downloads, ffmpeg_runs, last, arg, res>>

\* line 46: split_songs_to_segments returns pd.DataFrame(split_result)
FinishSplit ==
    /\ pc = "split"
    /\ row = Len(results_df)
    /\ row' = 0
    /\ pc' = "mfcc"
    /\ UNCHANGED <<ncatalog, entry, nresults, pos, downloaded_count,
                   download_results, files, wav_ms, results_df, split_result,
                   stored, stream_downloads, ffmpeg_runs, last, arg, res>>

----------------------------------------------------------------------------
(* extract_features and the end of main *)

N_MFCC == 40
Vector == <<"vector", N_MFCC>>

\* extract_features(file_path): the mean vector, or None when librosa raises
extract_features(decodes) == IF decodes THEN Vector ELSE None

\* line 47 on a frame made from an empty list: it has no '30s_path' column
ExtractKeyError ==
    /\ pc = "mfcc"
    /\ split_result = <<>>
    /\ pc' = "KeyError: '30s_path'"
    /\ UNCHANGED <<ncatalog, entry, nresults, pos, downloaded_count,
                   download_results, files, wav_ms, results_df, row, split_result,
                   stored, stream_downloads, ffmpeg_runs, last, arg, res>>

\* line 47: segments_df['30s_path'].map(extract_features), one row at a time
ExtractRow(decodes) ==
    /\ pc = "mfcc"
    /\ row < Len(split_result)
    /\ split_result' = [split_result EXCEPT ![row + 1].mfcc =
                            extract_features(decodes)]
    /\ row' = row + 1
    /\ UNCHANGED <<pc, ncatalog, entry, nresults, pos, downloaded_count,
                   download_results, files, wav_ms, results_df, stored,
                   stream_downloads, ffmpeg_runs, last, arg, res>>

\* line 48: segments_df.to_csv('data/30s_segments.csv')
WriteSegments ==
    /\ pc = "mfcc"
    /\ split_result # <<>>
    /\ row = Len(split_result)
    /\ stored' = [stored EXCEPT !.segments = Csv(split_result)]
    /\ pc' = "done"
    /\ UNCHANGED <<ncatalog, entry, nresults, pos, downloaded_count,
                   download_results, files, wav_ms, results_df, row, split_result,
                   stream_downloads, ffmpeg_runs, last, arg, res>>

----------------------------------------------------------------------------
(* The pipeline *)

Init ==
    /\ pc = "rows"
    /\ ncatalog \in 0..MaxCatalog
    /\ entry = 0
    /\ nresults = 0
    /\ pos = 0
    /\ downloaded_count = 0
    /\ download_results = <<>>
    /\ files = {}
    /\ wav_ms = [p \in WavPaths |-> Absent]
    /\ results_df = <<>>
    /\ row = 0
    /\ split_result = <<>>
    /\ stored = [results |-> NotWritten, results_wav |-> NotWritten,
                 segments |-> NotWritten]
    /\ stream_downloads = [p \in Mp3Paths |-> 0]
    /\ ffmpeg_runs = [p \in WavPaths |-> 0]
    /\ last = [did |-> "start", secs |-> 0, skipped |-> FALSE]
    /\ arg = <<>>
    /\ res = Pending

Next ==
    \/ SearchYoutube
    \/ \E c \in Candidates : TryCandidate(c)
    \/ Break
    \/ Exhausted
    \/ WriteResults
    \/ ConvertKeyError
    \/ \E outcome \in FfmpegOutcomes : ConvertRow(outcome)
    \/ WriteResultsWav
    \/ SplitRow
    \/ SplitCrash
    \/ FinishSplit
    \/ ExtractKeyError
    \/ \E decodes \in BOOLEAN : ExtractRow(decodes)
    \/ WriteSegments

Spec == Init /\ [][Next]_vars

----------------------------------------------------------------------------
(* download_songs on one catalog entry, whatever earlier entries or runs   *)
(* left under datasets/songs                                               *)

InitDownload ==
    /\ pc = "rows"
    /\ ncatalog = 1
    /\ entry = 0
    /\ nresults = 0
    /\ pos = 0
    /\ downloaded_count = 0
    /\ download_results = <<>>
    /\ files \in SUBSET Mp3Paths
    /\ wav_ms = [p \in WavPaths |-> Absent]
    /\ results_df = <<>>
    /\ row = 0
    /\ split_result = <<>>
    /\ stored = [results |-> NotWritten, results_wav |-> NotWritten,
                 segments |-> NotWritten]
    /\ stream_downloads = [p \in Mp3Paths |-> 0]
    /\ ffmpeg_runs = [p \in WavPaths |-> 0]
    /\ last = [did |-> "start", secs |-> 0, skipped |-> FALSE]
    /\ arg = <<>>
    /\ res = Pending

NextDownload ==
    \/ SearchYoutube
    \/ \E c \in Candidates : TryCandidate(c)
    \/ Break
    \/ Exhausted

SpecDownload == InitDownload /\ [][NextDownload]_vars

----------------------------------------------------------------------------
(* main from the return of download_songs to results_wav.csv, over the     *)
(* rows one catalog entry can give                                         *)

\* the rows download_songs can record for one entry (431 s is 7:11)
AcquiredRows ==
    { r \in [url : Videos, nama_lagu : {1}, duration : {431},
             path : Mp3Paths \cup {None}] :
        r.path \in {None, FilePath[r.url]} }

RECURSIVE RowListsUpTo(_)
RowListsUpTo(n) ==
    IF n = 0 THEN {<<>>}
    ELSE LET shorter == RowListsUpTo(n - 1)
         IN  shorter \cup {Append(l, r) : l \in shorter, r \in AcquiredRows}

InitConvert ==
    /\ pc = "rows"
    /\ ncatalog = 1
    /\ entry = 1
    /\ download_results \in RowListsUpTo(Min(MaxRows, SONG_LENGTH_PER_TITLE))
    /\ nresults = Len(download_results)
    /\ pos = Len(download_results)
    /\ downloaded_count = Len(download_results)
    /\ files = {download_results[i].path : i \in 1..Len(download_results)}
                   \ {None}
    /\ wav_ms = [p \in WavPaths |-> Absent]
    /\ results_df = <<>>
    /\ row = 0
    /\ split_result = <<>>
    /\ stored = [results |-> NotWritten, results_wav |-> NotWritten,
                 segments |-> NotWritten]
    /\ stream_downloads = [p \in Mp3Paths |-> IF p \in files THEN 1 ELSE 0]
    /\ ffmpeg_runs = [p \in WavPaths |-> 0]
    /\ last = [did |-> "exhausted", secs |-> 0, skipped |-> FALSE]
    /\ arg = <<>>
    /\ res = Pending

NextConvert ==
    \/ WriteResults
    \/ ConvertKeyError
    \/ \E outcome \in FfmpegOutcomes : ConvertRow(outcome)
    \/ WriteResultsWav

SpecConvert == InitConvert /\ [][NextConvert]_vars

----------------------------------------------------------------------------
(* The pure helpers, each called once on an input from a bounded set *)

PipelineIdle ==
    /\ ncatalog = 0
    /\ entry = 0
    /\ nresults = 0
    /\ pos = 0
    /\ downloaded_count = 0
    /\ download_results = <<>>
    /\ files = {}
    /\ wav_ms = [p \in WavPaths |-> Absent]
    /\ results_df = <<>>
    /\ row = 0
    /\ split_result = <<>>
    /\ stored = [results |-> NotWritten, results_wav |-> NotWritten,
                 segments |-> NotWritten]
    /\ stream_downloads = [p \in Mp3Paths |-> 0]
    /\ ffmpeg_runs = [p \in WavPaths |-> 0]
    /\ last = [did |-> "start", secs |-> 0, skipped |-> FALSE]

Return(value) ==
    /\ pc = "call"
    /\ pc' = "return"
    /\ res' = value
    /\ UNCHANGED <<ncatalog, entry, nresults, pos, downloaded_count,
                   download_results, files, wav_ms, results_df, row, split_result,
                   stored, stream_downloads, ffmpeg_runs, last, arg>>

TitleAlphabet == {"a", "B", " ", "_", "!"}

InitClean ==
    /\ PipelineIdle
    /\ pc = "call"
    /\ arg \in StringsUpTo(TitleAlphabet, MaxTitleLen)
    /\ res = Pending

CallClean == Return(yt_title_clean(arg))

SpecClean == InitClean /\ [][CallClean]_vars

DurationAlphabet == {"2", "6", ":", ".", "x"}

InitParse ==
    /\ PipelineIdle
    /\ pc = "call"
    /\ arg \in StringsUpTo(DurationAlphabet, MaxDurationLen)
    /\ res = Pending

CallParse == Return(parse_duration(arg))

SpecParse == InitParse /\ [][CallParse]_vars

\* len(audio): whole seconds, one millisecond more, one millisecond less
AudioLengths ==
    {s * 1000 + f : s \in 0..MaxAudioSeconds, f \in {0, 1, 999}}

InitSegment ==
    /\ PipelineIdle
    /\ pc = "call"
    /\ arg \in AudioLengths
    /\ res = Pending

CallSegment == Return(SegmentsOf(arg))

SpecSegment == InitSegment /\ [][CallSegment]_vars

----------------------------------------------------------------------------
(* Properties *)

Rows == 1..Len(download_results)

\* the rows recorded for catalog entry e that have a path
Successes(e) ==
    Cardinality({i \in Rows : /\ download_results[i].nama_lagu = e
                              /\ download_results[i].path # None})

\* C1: quota law of download_songs.  For every catalog entry at most
\* SONG_LENGTH_PER_TITLE rows with a path are recorded; no recorded row and no
\* call of download_video has a duration of MAX_VIDEO_DURATION or more; and the
\* iteration that meets an over-long candidate changes neither the rows, nor
\* the counter, nor the files, nor the number of stream downloads.
C1_QuotaLaw ==
    /\ [](/\ \A e \in 1..entry : Successes(e) <= SONG_LENGTH_PER_TITLE
          /\ \A i \in Rows : download_results[i].duration < MAX_VIDEO_DURATION
          /\ last.did \in {"downloaded", "reused", "failed"}
                 => last.secs < MAX_VIDEO_DURATION
          /\ last.did = "too_long" => last.secs >= MAX_VIDEO_DURATION)
    /\ [][last'.did = "too_long"
            => UNCHANGED <<download_results, downloaded_count, files,
                           stream_downloads>>]_vars

\* C1, its case: the entry reached the quota with SONG_LENGTH_PER_TITLE
\* acquired tracks out of six candidates, the other one over-long and skipped.
C1_Witness ==
    /\ pos = SONG_LENGTH_PER_TITLE + 1
    /\ last.skipped
    /\ downloaded_count = SONG_LENGTH_PER_TITLE
    /\ Successes(entry) = SONG_LENGTH_PER_TITLE

\* C2: a candidate whose download fails does not count against the limit: the
\* counter is the number of acquired tracks of the entry, so the loop breaks on
\* the quota only with SONG_LENGTH_PER_TITLE acquired tracks (and otherwise
\* goes through every candidate, which gives min(limit, downloadable ones)).
C2_FailedDownloadNotCounted ==
    entry >= 1 =>
        /\ downloaded_count = Successes(entry)
        /\ last.did = "break" => Successes(entry) = SONG_LENGTH_PER_TITLE

Converted == 1..(IF pc = "convert" THEN row ELSE 0)

\* C6 as stated: convert_to_wav never invokes the conversion tool a second
\* time for one track, whatever the first invocation left.
C6_NoSecondInvocation ==
    \A p \in WavPaths : ffmpeg_runs[p] <= 1

\* C6 as amended: two convert_to_wav calls on the same non-null path return
\* the same wav_path, and once the wav file exists the tool is not invoked for
\* it again and the file is left as it is.
C6_NoInvocationOnceConverted ==
    /\ [](\A i, j \in Converted :
              /\ results_df[i].path # None
              /\ results_df[i].path = results_df[j].path
              => /\ results_df[i].wav_path = results_df[j].wav_path
                 /\ results_df[i].wav_path # None)
    /\ [][\A p \in WavPaths :
              wav_ms[p] # Absent => /\ ffmpeg_runs'[p] = ffmpeg_runs[p]
                                    /\ wav_ms'[p] = wav_ms[p]]_vars

\* C6, its case: two rows with the same path were converted, the tool ran once
\* and its output is there.
C6_Witness ==
    /\ pc = "convert"
    /\ row >= 2
    /\ results_df[1].path # None
    /\ results_df[1].path = results_df[2].path
    /\ ffmpeg_runs[results_df[2].wav_path] = 1
    /\ wav_ms[results_df[2].wav_path] # Absent

\* C3: a transcode failure is row-scoped: a row whose conversion left no wav
\* file is not in the canonical-audio table, and segmentation does not stop
\* the run on it.
C3_TranscodeFailureRowScoped ==
    /\ stored.results_wav.written =>
           \A i \in 1..Len(stored.results_wav.rows) :
               wav_ms[stored.results_wav.rows[i].wav_path] # Absent
    /\ pc # "FileNotFoundError"

\* C4: the feature table main writes has no row with a null feature vector.
C4_NoNullFeatureRows ==
    stored.segments.written =>
        \A i \in 1..Len(stored.segments.rows) :
            stored.segments.rows[i].mfcc = Vector

\* C10: the table of each stage is written before the next stage starts:
\* results.csv before any conversion, results_wav.csv before any segmentation,
\* the segment table before the first call of extract_features.
C10_StagePersistedBeforeNext ==
    /\ (pc = "convert" \/ \E p \in WavPaths : ffmpeg_runs[p] > 0)
           => stored.results.written
    /\ (pc = "split" \/ split_result # <<>>) => stored.results_wav.written
    /\ (\E i \in 1..Len(split_result) : split_result[i].mfcc # Pending)
           => stored.segments.written

\* C8: yt_title_clean is idempotent.
C8_Idempotent ==
    pc = "return" => yt_title_clean(res) = res

RECURSIVE Decimal(_)
Decimal(f) ==
    IF f = <<>> THEN 0
    ELSE 10 * Decimal(SubSeq(f, 1, Len(f) - 1)) + DigitVal(f[Len(f)])

\* a clock field: one or two digits, at most `top`
IsClock(f, top) ==
    /\ Len(f) \in {1, 2}
    /\ \A i \in 1..Len(f) : f[i] \in Digits
    /\ Decimal(f) <= top

C7_SegmentCountLaw ==
    pc = "return" =>
        LET W == SEGMENT_DURATION * 1000
            n == Len(res)
        IN  /\ n * W <= arg
            /\ arg < (n + 1) * W
            /\ \A k \in 1..n :
                   /\ res[k].i = k - 1
                   /\ res[k].audio.from = (k - 1) * W
                   /\ res[k].audio.to = k * W
            /\ \A k, l \in 1..n :
                   k < l => res[k].audio.to <= res[l].audio.from
            /\ arg < W => res = <<>>

\* C7, its case: a track of 95 seconds gave the three segments 0-30, 30-60
\* and 60-90 seconds.
C7_Witness ==
    /\ pc = "return"
    /\ arg = 95000
    /\ Len(res) = 3
    /\ res[3].audio = [from |-> 60000, to |-> 90000]

====
